---- MODULE Spec2Model ----
(***************************************************************************)
(* veklang: a list of typed instructions (ADD, SUB, EXIT) is lowered to    *)
(* NASM text.  The model covers the ordinal counter of utils.enum, the     *)
(* definition of InstructionType, the compile loop with its three          *)
(* optimisation flags, the earlier emit loop, and the Asm container with   *)
(* its raw serialisation.                                                  *)
(*                                                                         *)
(* Statements are the very strings the code builds (f-strings become \o    *)
(* and ToString).  An operand is an int or a str; the record carries which.*)
(***************************************************************************)
EXTENDS Integers, Sequences, FiniteSets, TLC

VARIABLES enum_counter, Type, pc, fn, instructions, opt_constant_folding,
          opt_useless_expressions, opt_dead_code, i, asm, exit_satisfied,
          err, raw

vars == <<enum_counter, Type, pc, fn, instructions, opt_constant_folding,
          opt_useless_expressions, opt_dead_code, i, asm, exit_satisfied,
          err, raw>>

\* ---------------------------------------------------------------- bounds
\* longest instruction list handed to compile / emit
MaxLen == 3
\* most statements a caller appends to one list of an Asm by hand
MaxSeg == 2

\* ---------------------------------------------------------------- operands
IntArg(n) == [isint |-> TRUE, n |-> n, s |-> ""]
StrArg(s) == [isint |-> FALSE, n |-> 0, s |-> s]

\* the operand lists instructions are built with: none, one, two ints,
\* an int and a str
ArgLists ==
  { <<>>, <<IntArg(0)>>, <<IntArg(5)>>, <<IntArg(9), IntArg(4)>>,
    <<IntArg(4), StrArg("x")>> }

KindNames == {"ADD", "SUB", "EXIT"}

\* isinstance(o, int)
IsInt(o) == o.isint

\* str(o) as an f-string field renders it
Fmt(o) == IF o.isint THEN ToString(o.n) ELSE o.s

\* str(type(o))
TypeStr(o) == IF o.isint THEN "<class 'int'>" ELSE "<class 'str'>"

\* o != 0 : a str never equals 0
NonZero(o) == ~(o.isint /\ o.n = 0)

\* ---------------------------------------------------------------- utils.enum
\* enum(reset=True): the counter is zeroed and 0 is returned;
\* enum(): the counter is incremented and its previous value returned.
EnumCounterAfter(c, reset) == IF reset THEN 0 ELSE c + 1

EnumReturn(c, reset) == IF reset THEN 0 ELSE EnumCounterAfter(c, reset) - 1

\* ---------------------------------------------------------------- Asm
NewAsm ==
  [segment_bss |-> <<>>, segment_data |-> <<>>,
   segment_text |-> <<"global _start">>, label_start |-> <<>>]

RECURSIVE JoinIndented(_)
\* "".join([f"\n {instruction}" for instruction in lst])
JoinIndented(lst) ==
  IF lst = <<>> THEN ""
  ELSE ("\n " \o Head(lst)) \o JoinIndented(Tail(lst))

\* a variant that writes the initialised-data segment first
RawDataFirst(a) ==
  "segment .data" \o JoinIndented(a.segment_data)
    \o "\nsegment .bss" \o JoinIndented(a.segment_bss)
    \o "\nsegment .text" \o JoinIndented(a.segment_text)
    \o "\n_start:" \o JoinIndented(a.label_start)

\* Asm.raw
Raw(a) ==
  "segment .bss" \o JoinIndented(a.segment_bss)
    \o "\nsegment .data" \o JoinIndented(a.segment_data)
    \o "\nsegment .text" \o JoinIndented(a.segment_text)
    \o "\n_start:" \o JoinIndented(a.label_start)

\* asm.label_start.append(stmt) for each statement of stmts in turn
AppendStart(a, stmts) == [a EXCEPT !.label_start = @ \o stmts]

\* ---------------------------------------------------------------- Instruction
\* Instruction(Type.<k>, args): type is the enum member (named by its value);
\* kind remembers which name the caller wrote.
Instruction(k, args) == [kind |-> k, type |-> Type[k], args |-> args]

RECURSIVE SeqsUpTo(_, _)
SeqsUpTo(S, n) ==
  IF n = 0 THEN {<<>>}
  ELSE LET shorter == SeqsUpTo(S, n - 1)
       IN  shorter \cup {Append(q, x) : q \in {r \in shorter : Len(r) = n - 1}, x \in S}

NoErr == [exc |-> "", msg |-> ""]

\* the members of InstructionType bound so far (none before the class body runs)
NoMembers == [k \in {} |-> 0]

\* ---------------------------------------------------------------- Init
Init ==
  /\ enum_counter = 0
  /\ Type = NoMembers
  /\ pc = "defADD"
  /\ fn = ""
  /\ instructions = <<>>
  /\ opt_constant_folding = FALSE
  /\ opt_useless_expressions = FALSE
  /\ opt_dead_code = FALSE
  /\ i = 0
  /\ asm = NewAsm
  /\ exit_satisfied = FALSE
  /\ err = NoErr
  /\ raw = ""

\* ---------------------------------------------------------------- InstructionType
\* class body of InstructionType, one assignment per step
DefADD ==
  /\ pc = "defADD"
  /\ Type' = ("ADD" :> EnumReturn(enum_counter, TRUE)) @@ Type
  /\ enum_counter' = EnumCounterAfter(enum_counter, TRUE)
  /\ pc' = "defSUB"
  /\ UNCHANGED <<fn, instructions, opt_constant_folding, opt_useless_expressions,
                 opt_dead_code, i, asm, exit_satisfied, err, raw>>

DefSUB ==
  /\ pc = "defSUB"
  /\ Type' = ("SUB" :> EnumReturn(enum_counter, FALSE)) @@ Type
  /\ enum_counter' = EnumCounterAfter(enum_counter, FALSE)
  /\ pc' = "defEXIT"
  /\ UNCHANGED <<fn, instructions, opt_constant_folding, opt_useless_expressions,
                 opt_dead_code, i, asm, exit_satisfied, err, raw>>

DefEXIT ==
  /\ pc = "defEXIT"
  /\ Type' = ("EXIT" :> EnumReturn(enum_counter, FALSE)) @@ Type
  /\ enum_counter' = EnumCounterAfter(enum_counter, FALSE)
  /\ pc' = "ready"
  /\ UNCHANGED <<fn, instructions, opt_constant_folding, opt_useless_expressions,
                 opt_dead_code, i, asm, exit_satisfied, err, raw>>

\* ---------------------------------------------------------------- lowering
\* match ins.type: case Type.ADD | Type.SUB
IsArith(ins) == ins.type = Type["ADD"] \/ ins.type = Type["SUB"]

\* match ins.type: case Type.EXIT (tried after the first case)
IsExit(ins) == ~IsArith(ins) /\ ins.type = Type["EXIT"]

\* ins_name = "ADD" if ins.type == Type.ADD else "SUB"
InsName(ins) == IF ins.type = Type["ADD"] THEN "ADD" ELSE "SUB"

\* the two messages compile and emit raise a CompilationError with
CountMsg(ins, idx) ==
  "Instruction " \o InsName(ins) \o " (" \o ToString(idx) \o
  "): Expected 2 arguments, got " \o ToString(Len(ins.args))

TypeMsg(ins, idx) ==
  "Instruction " \o InsName(ins) \o " (" \o ToString(idx) \o
  "): Unknown argument types: " \o TypeStr(ins.args[1]) \o ", " \o TypeStr(ins.args[2])

\* operand validation shared by compile and emit; "" when the operands pass
ValidationMsg(ins, idx) ==
  IF Len(ins.args) # 2 THEN CountMsg(ins, idx)
  ELSE IF ~(IsInt(ins.args[1]) /\ IsInt(ins.args[2])) THEN TypeMsg(ins, idx)
  ELSE ""

\* the folded statement: sum for ADD, first minus second otherwise
FoldedStmts(ins) ==
  << "mov rax, " \o ToString(IF ins.type = Type["ADD"]
                               THEN ins.args[1].n + ins.args[2].n
                               ELSE ins.args[1].n - ins.args[2].n) >>

\* the unfolded three statements
UnfoldedStmts(ins) ==
  << "mov rax, " \o Fmt(ins.args[1]),
     "mov rbx, " \o Fmt(ins.args[2]),
     IF ins.type = Type["ADD"] THEN "add rax, rbx" ELSE "sub rbx, rax" >>

\* a variant that tests constant folding before useless-expression elimination
ArithOutcomeFoldFirst(ins, idx, cf, ue) ==
  IF ValidationMsg(ins, idx) # ""
    THEN [what |-> "raise", msg |-> ValidationMsg(ins, idx), stmts |-> <<>>]
  ELSE IF cf THEN [what |-> "emit", msg |-> "", stmts |-> FoldedStmts(ins)]
  ELSE IF ue THEN [what |-> "skip", msg |-> "", stmts |-> <<>>]
  ELSE [what |-> "emit", msg |-> "", stmts |-> UnfoldedStmts(ins)]

\* compile, case ADD | SUB: what the iteration does with instruction idx
\* (0-based) under the flags: skip it, raise, or append statements
ArithOutcome(ins, idx, cf, ue) ==
  IF ue THEN [what |-> "skip", msg |-> "", stmts |-> <<>>]
  ELSE IF ValidationMsg(ins, idx) # ""
    THEN [what |-> "raise", msg |-> ValidationMsg(ins, idx), stmts |-> <<>>]
  ELSE IF cf THEN [what |-> "emit", msg |-> "", stmts |-> FoldedStmts(ins)]
  ELSE [what |-> "emit", msg |-> "", stmts |-> UnfoldedStmts(ins)]

\* the statement that sets the exit code, from ins.args[0]
ExitCodeStmt(ins) ==
  IF NonZero(ins.args[1]) THEN "mov rdi, " \o Fmt(ins.args[1]) ELSE "xor rdi, rdi"

\* case EXIT of compile and emit
ExitStmts(ins) == << "mov rax, 60", ExitCodeStmt(ins), "syscall" >>

\* a variant in which an EXIT never ends the loop
BreaksAfterExitNever(dce) == FALSE

\* if opt_dead_code: break
BreaksAfterExit(dce) == dce

\* the default exit appended by emit when no EXIT was lowered
DefaultExit == << "mov rax, 60", "xor rdi, rdi", "syscall" >>

\* every instruction a caller can build from the three names and ArgLists
Instructions == {Instruction(k, a) : k \in KindNames, a \in ArgLists}

CompilationError(m) == [exc |-> "CompilationError", msg |-> m]

\* ins.args[0] on an empty list
IndexError == [exc |-> "IndexError", msg |-> "list index out of range"]

\* ---------------------------------------------------------------- compile
\* compile(instructions, opt_constant_folding=cf, opt_useless_expressions=ue,
\*         opt_dead_code=dce): asm = Asm(), the loop is about to start
CallCompile ==
  /\ pc = "ready"
  /\ \E ins \in SeqsUpTo(Instructions, MaxLen), cf \in BOOLEAN, ue \in BOOLEAN, dce \in BOOLEAN :
        /\ instructions' = ins
        /\ opt_constant_folding' = cf
        /\ opt_useless_expressions' = ue
        /\ opt_dead_code' = dce
  /\ fn' = "compile"
  /\ asm' = NewAsm
  /\ i' = 0
  /\ pc' = "loop"
  /\ UNCHANGED <<enum_counter, Type, exit_satisfied, err, raw>>

\* one iteration of compile's loop on an ADD or SUB
CompileArith ==
  /\ pc = "loop" /\ fn = "compile" /\ i < Len(instructions)
  /\ IsArith(instructions[i + 1])
  /\ LET o == ArithOutcome(instructions[i + 1], i, opt_constant_folding,
                           opt_useless_expressions)
     IN  /\ asm' = AppendStart(asm, o.stmts)
         /\ err' = IF o.what = "raise" THEN CompilationError(o.msg) ELSE err
         /\ pc' = IF o.what = "raise" THEN "raised" ELSE "loop"
  /\ i' = i + 1
  /\ UNCHANGED <<enum_counter, Type, fn, instructions, opt_constant_folding,
                 opt_useless_expressions, opt_dead_code, exit_satisfied, raw>>

\* one iteration of compile's loop on an EXIT; with no operand the read of
\* args[0] raises after the first statement was appended
CompileExit ==
  /\ pc = "loop" /\ fn = "compile" /\ i < Len(instructions)
  /\ IsExit(instructions[i + 1])
  /\ IF instructions[i + 1].args = <<>>
       THEN /\ asm' = AppendStart(asm, <<"mov rax, 60">>)
            /\ err' = IndexError
            /\ pc' = "raised"
       ELSE /\ asm' = AppendStart(asm, ExitStmts(instructions[i + 1]))
            /\ err' = err
            /\ pc' = IF BreaksAfterExit(opt_dead_code) THEN "break" ELSE "loop"
  /\ i' = i + 1
  /\ UNCHANGED <<enum_counter, Type, fn, instructions, opt_constant_folding,
                 opt_useless_expressions, opt_dead_code, exit_satisfied, raw>>

\* return asm, once the loop is exhausted or was left by break
CompileReturn ==
  /\ fn = "compile"
  /\ \/ pc = "loop" /\ i = Len(instructions)
     \/ pc = "break"
  /\ pc' = "done"
  /\ UNCHANGED <<enum_counter, Type, fn, instructions, opt_constant_folding,
                 opt_useless_expressions, opt_dead_code, i, asm, exit_satisfied,
                 err, raw>>

\* ---------------------------------------------------------------- emit
\* emit(instructions): asm = Asm(), exit_satisfied = False
CallEmit ==
  /\ pc = "ready"
  /\ \E ins \in SeqsUpTo(Instructions, MaxLen) : instructions' = ins
  /\ fn' = "emit"
  /\ asm' = NewAsm
  /\ exit_satisfied' = FALSE
  /\ i' = 0
  /\ pc' = "loop"
  /\ UNCHANGED <<enum_counter, Type, opt_constant_folding, opt_useless_expressions,
                 opt_dead_code, err, raw>>

\* one iteration of emit's loop on an ADD or SUB
EmitArith ==
  /\ pc = "loop" /\ fn = "emit" /\ i < Len(instructions)
  /\ IsArith(instructions[i + 1])
  /\ LET ins == instructions[i + 1]
         m == ValidationMsg(ins, i)
     IN  IF m # ""
           THEN /\ err' = CompilationError(m)
                /\ pc' = "raised"
                /\ asm' = asm
           ELSE /\ err' = err
                /\ pc' = "loop"
                /\ asm' = AppendStart(asm, UnfoldedStmts(ins))
  /\ i' = i + 1
  /\ UNCHANGED <<enum_counter, Type, fn, instructions, opt_constant_folding,
                 opt_useless_expressions, opt_dead_code, exit_satisfied, raw>>

\* one iteration of emit's loop on an EXIT
EmitExit ==
  /\ pc = "loop" /\ fn = "emit" /\ i < Len(instructions)
  /\ IsExit(instructions[i + 1])
  /\ exit_satisfied' = TRUE
  /\ IF instructions[i + 1].args = <<>>
       THEN /\ asm' = AppendStart(asm, <<"mov rax, 60">>)
            /\ err' = IndexError
            /\ pc' = "raised"
       ELSE /\ asm' = AppendStart(asm, ExitStmts(instructions[i + 1]))
            /\ err' = err
            /\ pc' = "loop"
  /\ i' = i + 1
  /\ UNCHANGED <<enum_counter, Type, fn, instructions, opt_constant_folding,
                 opt_useless_expressions, opt_dead_code, raw>>

\* after the loop: the default exit unless an EXIT was lowered, then return asm
EmitReturn ==
  /\ fn = "emit" /\ pc = "loop" /\ i = Len(instructions)
  /\ asm' = IF ~exit_satisfied THEN AppendStart(asm, DefaultExit) ELSE asm
  /\ pc' = "done"
  /\ UNCHANGED <<enum_counter, Type, fn, instructions, opt_constant_folding,
                 opt_useless_expressions, opt_dead_code, i, exit_satisfied, err, raw>>

Next ==
  \/ DefADD
  \/ DefSUB
  \/ DefEXIT
  \/ CallCompile
  \/ CompileArith
  \/ CompileExit
  \/ CompileReturn
  \/ CallEmit
  \/ EmitArith
  \/ EmitExit
  \/ EmitReturn

Spec == Init /\ [][Next]_vars

\* ---------------------------------------------------------------- Asm by hand
\* statements a caller appends to an Asm directly
HandStmts == {"msg db 'hi mom', 0x0A", "syscall"}

\* source = Asm()
InitAsm ==
  /\ enum_counter = 0
  /\ Type = NoMembers
  /\ pc = "asm"
  /\ fn = ""
  /\ instructions = <<>>
  /\ opt_constant_folding = FALSE
  /\ opt_useless_expressions = FALSE
  /\ opt_dead_code = FALSE
  /\ i = 0
  /\ asm = NewAsm
  /\ exit_satisfied = FALSE
  /\ err = NoErr
  /\ raw = ""

\* <list>.append(stmt) on one of the four lists of the Asm
AppendBss ==
  /\ pc = "asm" /\ Len(asm.segment_bss) < MaxSeg
  /\ \E st \in HandStmts : asm' = [asm EXCEPT !.segment_bss = Append(@, st)]
  /\ UNCHANGED <<enum_counter, Type, pc, fn, instructions, opt_constant_folding,
                 opt_useless_expressions, opt_dead_code, i, exit_satisfied, err, raw>>

AppendData ==
  /\ pc = "asm" /\ Len(asm.segment_data) < MaxSeg
  /\ \E st \in HandStmts : asm' = [asm EXCEPT !.segment_data = Append(@, st)]
  /\ UNCHANGED <<enum_counter, Type, pc, fn, instructions, opt_constant_folding,
                 opt_useless_expressions, opt_dead_code, i, exit_satisfied, err, raw>>

AppendText ==
  /\ pc = "asm" /\ Len(asm.segment_text) < 1 + MaxSeg
  /\ \E st \in HandStmts : asm' = [asm EXCEPT !.segment_text = Append(@, st)]
  /\ UNCHANGED <<enum_counter, Type, pc, fn, instructions, opt_constant_folding,
                 opt_useless_expressions, opt_dead_code, i, exit_satisfied, err, raw>>

AppendLabelStart ==
  /\ pc = "asm" /\ Len(asm.label_start) < MaxSeg
  /\ \E st \in HandStmts : asm' = AppendStart(asm, <<st>>)
  /\ UNCHANGED <<enum_counter, Type, pc, fn, instructions, opt_constant_folding,
                 opt_useless_expressions, opt_dead_code, i, exit_satisfied, err, raw>>

\* source.raw is read and handed on
Render ==
  /\ pc = "asm"
  /\ raw' = Raw(asm)
  /\ pc' = "rendered"
  /\ UNCHANGED <<enum_counter, Type, fn, instructions, opt_constant_folding,
                 opt_useless_expressions, opt_dead_code, i, asm, exit_satisfied, err>>

NextAsm ==
  \/ AppendBss
  \/ AppendData
  \/ AppendText
  \/ AppendLabelStart
  \/ Render

SpecAsm == InitAsm /\ [][NextAsm]_vars

\* ================================================================ properties
\* what the caller wrote, independent of the enum values
BuiltArith(ins) == ins.kind \in {"ADD", "SUB"}
BuiltExit(ins) == ins.kind = "EXIT"
WellFormed(ins) == Len(ins.args) = 2 /\ ins.args[1].isint /\ ins.args[2].isint
EndsWith(q, tl) == Len(q) >= Len(tl) /\ SubSeq(q, Len(q) - Len(tl) + 1, Len(q)) = tl
ExitZero == << "mov rax, 60", "xor rdi, rdi", "syscall" >>
HasExit == \E k \in 1..Len(instructions) : BuiltExit(instructions[k])
FirstExit == CHOOSE k \in 1..Len(instructions) :
               BuiltExit(instructions[k]) /\ \A j \in 1..(k - 1) : ~BuiltExit(instructions[j])
\* the three statements an Exit stands for: code c when present and nonzero
ExitLowered(ins) ==
  << "mov rax, 60",
     IF ins.args # <<>> /\ ~(ins.args[1].isint /\ ins.args[1].n = 0)
       THEN "mov rdi, " \o (IF ins.args[1].isint THEN ToString(ins.args[1].n) ELSE ins.args[1].s)
       ELSE "xor rdi, rdi",
     "syscall" >>
SyscallCount(q) == Cardinality({k \in 1..Len(q) : q[k] = "syscall"})
CompileDone == pc = "done" /\ fn = "compile"

\* C1: when compile returns for a list without any Exit, under any flags, the
\* entry body ends with 'mov rax, 60', 'xor rdi, rdi', 'syscall'.
C1_DefaultExitAfterCompile ==
  (CompileDone /\ ~HasExit) => EndsWith(asm.label_start, ExitZero)

\* C2: with constant folding on and useless-expression elimination off, each
\* well-formed Add/Sub emits exactly 'mov rax, N', N = a + b for a built ADD
\* and a - b for a built SUB.
C2_FoldedLiteral ==
  ( /\ fn = "compile" /\ pc \in {"loop", "break", "done"}
    /\ opt_constant_folding /\ ~opt_useless_expressions
    /\ \A k \in 1..i : BuiltArith(instructions[k]) /\ WellFormed(instructions[k]) )
  => /\ Len(asm.label_start) = i
     /\ \A k \in 1..i :
          asm.label_start[k] =
            "mov rax, " \o ToString(IF instructions[k].kind = "ADD"
                                      THEN instructions[k].args[1].n + instructions[k].args[2].n
                                      ELSE instructions[k].args[1].n - instructions[k].args[2].n)

\* C3: with useless-expression elimination on, no Add/Sub adds a statement to
\* the entry body, yet an Add/Sub the loop reaches whose operands are not two
\* integers makes compile fail with a CompilationError.
C3_ValidatedThoughSkipped ==
  (fn = "compile" /\ opt_useless_expressions) =>
     /\ err.exc # "IndexError" =>
          Len(asm.label_start) = 3 * Cardinality({k \in 1..i : BuiltExit(instructions[k])})
     /\ (i >= 1 /\ BuiltArith(instructions[i]) /\ ~WellFormed(instructions[i]))
          => (pc = "raised" /\ err.exc = "CompilationError")

\* C4: with dead-code elimination on and an Exit in the list, a returning
\* compile stopped right after the first Exit: the entry body ends with that
\* Exit's three statements, holds nothing from later instructions and exactly
\* one 'syscall'.
C4_StopsAfterFirstExit ==
  (CompileDone /\ opt_dead_code /\ HasExit) =>
     /\ i = FirstExit
     /\ EndsWith(asm.label_start, ExitLowered(instructions[FirstExit]))
     /\ SyscallCount(asm.label_start) = 1
     /\ Len(asm.label_start) <= 3 * FirstExit

C4_Witness ==
  /\ CompileDone /\ opt_dead_code /\ HasExit
  /\ FirstExit + 1 < Len(instructions)
  /\ BuiltExit(instructions[FirstExit + 1])
  /\ instructions[FirstExit + 1].args # <<>>
  /\ BuiltArith(instructions[FirstExit + 2])

\* C5: with useless-expression elimination off, a malformed Add/Sub reached at
\* 0-based index i makes compile fail with a CompilationError naming index i
\* and the kind the instruction was built with; no Asm is returned.
C5_ErrorNamesIndexAndKind ==
  ( /\ fn = "compile" /\ ~opt_useless_expressions /\ i >= 1
    /\ BuiltArith(instructions[i]) /\ ~WellFormed(instructions[i]) )
  => /\ pc = "raised"
     /\ err.exc = "CompilationError"
     /\ LET ins == instructions[i]
            head == "Instruction " \o ins.kind \o " (" \o ToString(i - 1) \o "): "
        IN  err.msg =
              IF Len(ins.args) # 2
                THEN head \o "Expected 2 arguments, got " \o ToString(Len(ins.args))
                ELSE head \o "Unknown argument types: "
                       \o (IF ins.args[1].isint THEN "<class 'int'>" ELSE "<class 'str'>")
                       \o ", "
                       \o (IF ins.args[2].isint THEN "<class 'int'>" ELSE "<class 'str'>")

\* C6: an Exit with zero or one operand that is lowered appends exactly
\* 'mov rax, 60', then 'mov rdi, c' (c present, nonzero) or 'xor rdi, rdi'
\* (absent or zero), then 'syscall'; with an empty operand list it compiles.
C6_ExitLowering ==
  [][ ( /\ pc = "loop" /\ fn = "compile" /\ i < Len(instructions)
        /\ BuiltExit(instructions[i + 1]) /\ Len(instructions[i + 1].args) <= 1 )
      => /\ pc' # "raised"
         /\ asm'.label_start = asm.label_start \o ExitLowered(instructions[i + 1]) ]_vars

\* C7: raw is the lines '.bss' header, bss statements, '.data' header, data
\* statements, '.text' header, text statements, '_start:', entry statements,
\* joined by newlines, every statement behind one space and in list order,
\* with 'global _start' in the text segment ahead of '_start:'.
Indented(q) == [k \in 1..Len(q) |-> " " \o q[k]]
RECURSIVE JoinLines(_)
JoinLines(ls) ==
  IF Len(ls) = 1 THEN ls[1] ELSE ls[1] \o "\n" \o JoinLines(Tail(ls))
RawLines ==
  <<"segment .bss">> \o Indented(asm.segment_bss)
    \o <<"segment .data">> \o Indented(asm.segment_data)
    \o <<"segment .text">> \o Indented(asm.segment_text)
    \o <<"_start:">> \o Indented(asm.label_start)
C7_RawLayout ==
  pc = "rendered" =>
     /\ raw = JoinLines(RawLines)
     /\ RawLines[Len(asm.segment_bss) + Len(asm.segment_data) + 3] = "segment .text"
     /\ RawLines[Len(asm.segment_bss) + Len(asm.segment_data) + 4] = " global _start"
     /\ RawLines[Len(asm.segment_bss) + Len(asm.segment_data) + Len(asm.segment_text) + 4]
          = "_start:"

C7_Witness ==
  /\ pc = "rendered"
  /\ asm.segment_bss = <<>>
  /\ Len(asm.segment_data) = 2 /\ asm.segment_data[1] # asm.segment_data[2]
  /\ Len(asm.segment_text) = 2
  /\ asm.label_start # <<>>

\* C8: well-formed Add/Sub instructions, then Exit(0), then anything: with
\* useless-expression and dead-code elimination on, and constant folding on or
\* off, the entry body is exactly 'mov rax, 60', 'xor rdi, rdi', 'syscall'.
ArithThenExitZero ==
  \E f \in 1..Len(instructions) :
     /\ BuiltExit(instructions[f]) /\ instructions[f].args = <<IntArg(0)>>
     /\ \A k \in 1..(f - 1) : BuiltArith(instructions[k]) /\ WellFormed(instructions[k])
C8_OnlyExitSequence ==
  (CompileDone /\ opt_useless_expressions /\ opt_dead_code /\ ArithThenExitZero)
     => asm.label_start = ExitZero

C8_Witness ==
  /\ CompileDone /\ opt_constant_folding /\ opt_useless_expressions /\ opt_dead_code
  /\ Len(instructions) = 3
  /\ instructions[1].kind = "ADD" /\ WellFormed(instructions[1])
  /\ instructions[2] = Instruction("EXIT", <<IntArg(0)>>)
  /\ instructions[3].kind = "SUB" /\ WellFormed(instructions[3])

\* C9: with folding and useless-expression elimination off, a well-formed
\* Add/Sub (a, b) appends 'mov rax, a', 'mov rbx, b', then 'add rax, rbx' for a
\* built ADD or 'sub rbx, rax' for a built SUB.
C9_UnfoldedLowering ==
  ( /\ fn = "compile" /\ ~opt_constant_folding /\ ~opt_useless_expressions
    /\ pc = "loop" /\ i >= 1
    /\ BuiltArith(instructions[i]) /\ WellFormed(instructions[i]) )
  => EndsWith(asm.label_start,
              << "mov rax, " \o ToString(instructions[i].args[1].n),
                 "mov rbx, " \o ToString(instructions[i].args[2].n),
                 IF instructions[i].kind = "ADD" THEN "add rax, rbx" ELSE "sub rbx, rax" >>)

\* C10: once InstructionType is defined, ADD, SUB and EXIT hold the pairwise
\* distinct values 0, 1, 2 (the k-th enum() call after the reset returns k).
C10_DistinctOrdinals ==
  DOMAIN Type = KindNames =>
     /\ Type["ADD"] = 0 /\ Type["SUB"] = 1 /\ Type["EXIT"] = 2
     /\ Type["ADD"] # Type["SUB"] /\ Type["SUB"] # Type["EXIT"] /\ Type["ADD"] # Type["EXIT"]

====
